---- MODULE Spec2Model ----
(***************************************************************************)
(* Model of rnote-engine's StrokeContent (engine/strokecontent.rs): the    *)
(* export container, its bounds()/size() queries, the two-pass clipped     *)
(* render draw_to_cairo() and the Svg snapshot generate_svg().             *)
(*                                                                         *)
(* Coordinates, margins and scales are integers standing for f64 values.   *)
(* The cairo context is modelled by the log of the calls issued on it.     *)
(***************************************************************************)
EXTENDS Integers, Sequences, FiniteSets, TLC

VARIABLES
    strokes,     \* StrokeContent.strokes
    bounds,      \* StrokeContent.bounds
    background,  \* StrokeContent.background
    call,        \* the method called on the container and its arguments
    ret,         \* what the call returned
    log,         \* the calls issued on the cairo context
    warned       \* a tracing::warn! record was emitted

vars == <<strokes, bounds, background, call, ret, log, warned>>

(* ---------------- bounds of the model ---------------- *)

\* longest stroke vector handed to with_strokes
MaxStrokes == 2

(* ---------------- Option / Result ---------------- *)

None == [tag |-> "None"]
Some(x) == [tag |-> "Some", val |-> x]
Ok(x) == [tag |-> "Ok", val |-> x]
Err == [tag |-> "Err"]
Unit == "()"

(* ---------------- p2d Aabb ---------------- *)

Min2(a, b) == IF a <= b THEN a ELSE b
Max2(a, b) == IF a >= b THEN a ELSE b

Aabb(mins, maxs) == [mins |-> mins, maxs |-> maxs]

\* stand-in for f64::MAX: larger than every coordinate of the model
RealMax == 1000

\* mutant: the fold starts from a box at the origin
NewInvalidAtOrigin == Aabb(<<0, 0>>, <<0, 0>>)

NewInvalid == Aabb(<<RealMax, RealMax>>, <<-RealMax, -RealMax>>)

Merged(a, b) ==
    Aabb(<<Min2(a.mins[1], b.mins[1]), Min2(a.mins[2], b.mins[2])>>,
         <<Max2(a.maxs[1], b.maxs[1]), Max2(a.maxs[2], b.maxs[2])>>)

Loosened(a, m) ==
    Aabb(<<a.mins[1] - m, a.mins[2] - m>>, <<a.maxs[1] + m, a.maxs[2] + m>>)

Extents(a) == <<a.maxs[1] - a.mins[1], a.maxs[2] - a.mins[2]>>

Contains(a, b) ==
    /\ a.mins[1] <= b.mins[1] /\ a.mins[2] <= b.mins[2]
    /\ b.maxs[1] <= a.maxs[1] /\ b.maxs[2] <= a.maxs[2]

(* ---------------- input domains ---------------- *)

\* a small box, and a wide and a tall box that both contain it but not
\* each other (their union is none of the three)
BoxSmall == Aabb(<<1, 1>>, <<2, 2>>)
BoxWide == Aabb(<<0, 1>>, <<3, 2>>)
BoxTall == Aabb(<<1, 0>>, <<2, 4>>)
StrokeBoxes == {BoxSmall, BoxWide, BoxTall}

\* an override that contains none of the stroke boxes
BoxOverride == Aabb(<<0, 0>>, <<1, 1>>)
Overrides == {None, Some(BoxOverride)}

\* a brush stroke over each box, a bitmap image over the wide box and a
\* vector image over the tall one: either image encloses the small brush
\* stroke, neither encloses the brush stroke over the other's box
Stroke(kind, b) == [kind |-> kind, bounds |-> b, color |-> "original"]

Strokes ==
    {Stroke("BrushStroke", b) : b \in StrokeBoxes}
    \cup {Stroke("BitmapImage", BoxWide), Stroke("VectorImage", BoxTall)}

Backgrounds == {None, Some("Background")}

Margins == {-1, 0, 1}
ImageScales == {1, 2}

RECURSIVE SeqsUpTo(_, _)
SeqsUpTo(S, n) ==
    IF n = 0 THEN {<<>>}
    ELSE LET shorter == SeqsUpTo(S, n - 1)
         IN shorter \cup {Append(s, x) : s \in {t \in shorter : Len(t) = n - 1}, x \in S}

StrokeVecs == SeqsUpTo(Strokes, MaxStrokes)

(* ---------------- StrokeContent ---------------- *)

Self == [strokes |-> strokes, bounds |-> bounds, background |-> background]

StrokeBounds(s) == s.bounds

RECURSIVE FoldMerged(_, _, _)
FoldMerged(acc, ss, i) ==
    IF i > Len(ss) THEN acc
    ELSE FoldMerged(Merged(acc, StrokeBounds(ss[i])), ss, i + 1)

\* mutant: the computed box takes precedence over the override
BoundsComputedFirst(self) ==
    IF self.strokes # <<>> THEN Some(FoldMerged(NewInvalid, self.strokes, 1))
    ELSE self.bounds

\* mutant: no early return for an empty stroke vector
BoundsFoldAlways(self) ==
    IF self.bounds # None THEN self.bounds
    ELSE Some(FoldMerged(NewInvalid, self.strokes, 1))

Bounds(self) ==
    IF self.bounds # None THEN self.bounds
    ELSE IF self.strokes = <<>> THEN None
    ELSE Some(FoldMerged(NewInvalid, self.strokes, 1))

Size(self) ==
    LET b == Bounds(self)
    IN IF b = None THEN None ELSE Some(Extents(b.val))

(* ---------------- external collaborators ---------------- *)

\* Stroke::set_to_darkest_color on a private clone of the stroke
SetToDarkestColor(s) == [s EXCEPT !.color = "darkest"]

\* image.rectangle.bounds() of a BitmapImage / VectorImage
ImageRectangleBounds(s) == s.bounds

(* ---------------- cairo context ---------------- *)

\* The context is modelled by the calls issued on it. A call that returns a
\* Result carries ok; the others (rectangle, clip) cannot fail.

CairoSave == [op |-> "save", ok |-> TRUE]

CairoRestore == [op |-> "restore", ok |-> TRUE]

CairoRectangle(x, y, width, height) ==
    [op |-> "rectangle", x |-> x, y |-> y, width |-> width, height |-> height]

CairoClip == [op |-> "clip"]

BackgroundDrawToCairo(bg, b, draw_pattern, optimize_printing) ==
    [op |-> "background_draw", background |-> bg, bounds |-> b,
     draw_pattern |-> draw_pattern, optimize_printing |-> optimize_printing,
     ok |-> TRUE]

StrokeDrawToCairo(i, s, image_scale) ==
    [op |-> "stroke_draw", idx |-> i, stroke |-> s, image_scale |-> image_scale,
     ok |-> TRUE]

Fallible(c) == c.op \in {"save", "restore", "background_draw", "stroke_draw"}

\* number of fallible calls among the first k calls of cs
Ordinal(cs, k) == Cardinality({j \in 1..k : Fallible(cs[j])})

\* mutant: the result of a stroke's draw is dropped and the loop goes on
PropagateLoopIgnored(cs, fail) ==
    LET at == {k \in 1..Len(cs) : Fallible(cs[k]) /\ Ordinal(cs, k) = fail}
    IN IF fail = 0 \/ at = {} THEN [log |-> cs, err |-> FALSE]
       ELSE LET p == CHOOSE k \in at : TRUE
            IN IF cs[p].op = "stroke_draw"
               THEN [log |-> [k \in 1..Len(cs) |->
                                IF k = p THEN [cs[k] EXCEPT !.ok = FALSE] ELSE cs[k]],
                     err |-> FALSE]
               ELSE [log |-> [k \in 1..p |->
                                IF k = p THEN [cs[k] EXCEPT !.ok = FALSE] ELSE cs[k]],
                     err |-> TRUE]

\* Every fallible call of draw_to_cairo is followed by `?`: the calls issued
\* when the backend fails the fail-th fallible call (0 = none fails) are the
\* straight-line calls cs up to and including that call.
Propagate(cs, fail) ==
    LET at == {k \in 1..Len(cs) : Fallible(cs[k]) /\ Ordinal(cs, k) = fail}
    IN IF fail = 0 \/ at = {} THEN [log |-> cs, err |-> FALSE]
       ELSE LET p == CHOOSE k \in at : TRUE
            IN [log |-> [k \in 1..p |-> IF k = p THEN [cs[k] EXCEPT !.ok = FALSE]
                                        ELSE cs[k]],
                err |-> TRUE]

(* ---------------- draw_to_cairo ---------------- *)

IsImage(s) == s.kind \in {"BitmapImage", "VectorImage"}

RECURSIVE ImageBounds(_, _)
ImageBounds(ss, i) ==
    IF i > Len(ss) THEN <<>>
    ELSE IF IsImage(ss[i]) THEN <<ImageRectangleBounds(ss[i])>> \o ImageBounds(ss, i + 1)
    ELSE ImageBounds(ss, i + 1)

NotInsideImage(image_bounds, stroke_bounds) ==
    \A k \in 1..Len(image_bounds) : ~Contains(image_bounds[k], stroke_bounds)

\* mutant: the reduction is applied through the shared handle
DrawStrokeInPlace(stroke, image_bounds, optimize_printing) ==
    LET stroke_bounds == StrokeBounds(stroke)
    IN IF optimize_printing /\ NotInsideImage(image_bounds, stroke_bounds)
       THEN [drawn |-> SetToDarkestColor(stroke), held |-> SetToDarkestColor(stroke)]
       ELSE [drawn |-> stroke, held |-> stroke]

\* one iteration of the stroke loop: drawn = the value handed to the
\* backend, held = the value of the container's shared stroke afterwards
DrawStroke(stroke, image_bounds, optimize_printing) ==
    LET stroke_bounds == StrokeBounds(stroke)
    IN IF optimize_printing /\ NotInsideImage(image_bounds, stroke_bounds)
       THEN [drawn |-> SetToDarkestColor(stroke), held |-> stroke]
       ELSE [drawn |-> stroke, held |-> stroke]

BackgroundPass(self, bounds_loosened, draw_background, draw_pattern, optimize_printing) ==
    <<CairoSave,
      CairoRectangle(bounds_loosened.mins[1], bounds_loosened.mins[2],
                     Extents(bounds_loosened)[1], Extents(bounds_loosened)[2]),
      CairoClip>>
    \o (IF draw_background /\ self.background # None
        THEN <<BackgroundDrawToCairo(self.background.val, bounds_loosened,
                                     draw_pattern, optimize_printing)>>
        ELSE <<>>)
    \o <<CairoRestore>>

ContentPass(self, b, optimize_printing, image_scale) ==
    LET image_bounds == ImageBounds(self.strokes, 1)
    IN <<CairoSave,
         CairoRectangle(b.mins[1], b.mins[2], Extents(b)[1], Extents(b)[2]),
         CairoClip>>
       \o [i \in 1..Len(self.strokes) |->
             StrokeDrawToCairo(i, DrawStroke(self.strokes[i], image_bounds,
                                             optimize_printing).drawn,
                               image_scale)]
       \o <<CairoRestore>>

\* the outcome of the calls r: the shared strokes after the iterations
\* that were reached
Outcome(self, r, optimize_printing) ==
    LET image_bounds == ImageBounds(self.strokes, 1)
        reached == {r.log[k].idx : k \in {j \in 1..Len(r.log) : r.log[j].op = "stroke_draw"}}
    IN [log |-> r.log, err |-> r.err,
        strokes |-> [i \in 1..Len(self.strokes) |->
                       IF i \in reached
                       THEN DrawStroke(self.strokes[i], image_bounds, optimize_printing).held
                       ELSE self.strokes[i]]]

\* mutant: the content pass clips to the loosened bounds
DrawToCairoLooseContent(self, draw_background, draw_pattern, optimize_printing, margin, image_scale, fail) ==
    LET b == Bounds(self)
    IN IF b = None THEN [log |-> <<>>, err |-> FALSE, strokes |-> self.strokes]
       ELSE LET bounds_loosened == Loosened(b.val, margin)
            IN Outcome(self,
                       Propagate(
                         BackgroundPass(self, bounds_loosened, draw_background,
                                        draw_pattern, optimize_printing)
                         \o ContentPass(self, bounds_loosened, optimize_printing,
                                        image_scale),
                         fail),
                       optimize_printing)

\* [log, err, strokes]: the calls issued on cairo_cx, whether the call
\* returns Err, and the container's strokes afterwards
DrawToCairo(self, draw_background, draw_pattern, optimize_printing, margin, image_scale, fail) ==
    LET b == Bounds(self)
    IN IF b = None THEN [log |-> <<>>, err |-> FALSE, strokes |-> self.strokes]
       ELSE LET bounds_loosened == Loosened(b.val, margin)
            IN Outcome(self,
                       Propagate(
                         BackgroundPass(self, bounds_loosened, draw_background,
                                        draw_pattern, optimize_printing)
                         \o ContentPass(self, b.val, optimize_printing, image_scale),
                         fail),
                       optimize_printing)

Result(r) == IF r.err THEN Err ELSE Ok(Unit)

(* ---------------- generate_svg ---------------- *)

\* Svg::gen_with_cairo(draw_func, bounds): records draw_func on a new
\* surface and finishes the recording, one more fallible step after the
\* calls of draw_func. d is the outcome of draw_func.
GenWithCairo(d, b, fail) ==
    IF d.err THEN Err
    ELSE IF fail = Ordinal(d.log, Len(d.log)) + 1 THEN Err
    ELSE Ok([bounds |-> b, content |-> d.log])

\* Svg::simplify(&mut self)
Simplify(svg, simplify_fails) ==
    IF simplify_fails THEN [res |-> Err, svg |-> svg]
    ELSE [res |-> Ok(Unit),
          svg |-> [svg EXCEPT !.bounds = Aabb(<<0, 0>>, Extents(svg.bounds))]]

\* mutant: a failing simplify() is propagated with `?`
GenerateSvgStrict(self, draw_background, draw_pattern, optimize_printing, margin, fail, simplify_fails) ==
    LET b == Bounds(self)
    IN IF b = None
       THEN [ret |-> Ok(None), log |-> <<>>, strokes |-> self.strokes, warned |-> FALSE]
       ELSE LET bounds_loosened == Loosened(b.val, margin)
                d == DrawToCairo(self, draw_background, draw_pattern,
                                 optimize_printing, margin, 1, fail)
                g == GenWithCairo(d, bounds_loosened, fail)
            IN IF g = Err
               THEN [ret |-> Err, log |-> d.log, strokes |-> d.strokes, warned |-> FALSE]
               ELSE LET s == Simplify(g.val, simplify_fails)
                    IN IF s.res = Err
                       THEN [ret |-> Err, log |-> d.log, strokes |-> d.strokes,
                             warned |-> FALSE]
                       ELSE [ret |-> Ok(Some(s.svg)), log |-> d.log,
                             strokes |-> d.strokes, warned |-> FALSE]

\* [ret, log, strokes, warned]
GenerateSvg(self, draw_background, draw_pattern, optimize_printing, margin, fail, simplify_fails) ==
    LET b == Bounds(self)
    IN IF b = None
       THEN [ret |-> Ok(None), log |-> <<>>, strokes |-> self.strokes, warned |-> FALSE]
       ELSE LET bounds_loosened == Loosened(b.val, margin)
                d == DrawToCairo(self, draw_background, draw_pattern,
                                 optimize_printing, margin, 1, fail)
                g == GenWithCairo(d, bounds_loosened, fail)
            IN IF g = Err
               THEN [ret |-> Err, log |-> d.log, strokes |-> d.strokes, warned |-> FALSE]
               ELSE LET s == Simplify(g.val, simplify_fails)
                    IN [ret |-> Ok(Some(s.svg)), log |-> d.log, strokes |-> d.strokes,
                        warned |-> (s.res = Err)]

(* ---------------- state machine ---------------- *)

NoCall == [op |-> "none"]

\* The methods take &self and are functions of the container, their
\* arguments and the backend's failures: a behaviour is one container,
\* as the builders with_strokes / with_bounds / with_background (or the
\* public fields) can set it up, and one call on it.
Init ==
    /\ strokes \in StrokeVecs
    /\ bounds \in Overrides
    /\ background \in Backgrounds
    /\ call = NoCall
    /\ ret = None
    /\ log = <<>>
    /\ warned = FALSE

CallBounds ==
    /\ call = NoCall
    /\ call' = [op |-> "bounds"]
    /\ ret' = Bounds(Self)
    /\ log' = <<>>
    /\ UNCHANGED <<strokes, bounds, background, warned>>

CallSize ==
    /\ call = NoCall
    /\ call' = [op |-> "size"]
    /\ ret' = Size(Self)
    /\ log' = <<>>
    /\ UNCHANGED <<strokes, bounds, background, warned>>

CallDrawToCairo(draw_background, draw_pattern, optimize_printing, margin, image_scale, fail) ==
    \E cx \in {DrawToCairo(Self, draw_background, draw_pattern,
                           optimize_printing, margin, image_scale, fail)} :
       /\ call = NoCall
       /\ call' = [op |-> "draw_to_cairo", draw_background |-> draw_background,
                   draw_pattern |-> draw_pattern,
                   optimize_printing |-> optimize_printing, margin |-> margin,
                   image_scale |-> image_scale, fail |-> fail]
       /\ ret' = Result(cx)
       /\ log' = cx.log
       /\ strokes' = cx.strokes
       /\ UNCHANGED <<bounds, background, warned>>

\* the fallible backend calls a run without failure issues
NumCalls(draw_background) ==
    LET r == DrawToCairo(Self, draw_background, FALSE, FALSE, 0, 1, 0)
    IN Ordinal(r.log, Len(r.log))

CallGenerateSvg(draw_background, draw_pattern, optimize_printing, margin, fail, simplify_fails) ==
    \E r \in {GenerateSvg(Self, draw_background, draw_pattern, optimize_printing,
                          margin, fail, simplify_fails)} :
       /\ call = NoCall
       /\ call' = [op |-> "generate_svg", draw_background |-> draw_background,
                   draw_pattern |-> draw_pattern,
                   optimize_printing |-> optimize_printing, margin |-> margin,
                   fail |-> fail, simplify_fails |-> simplify_fails]
       /\ ret' = r.ret
       /\ log' = r.log
       /\ strokes' = r.strokes
       /\ warned' = r.warned
       /\ UNCHANGED <<bounds, background>>

\* the fallible steps of generate_svg: those of the draw and the recording
NumSteps(draw_background) ==
    IF Bounds(Self) = None THEN 0 ELSE NumCalls(draw_background) + 1

\* simplify() runs only when the recording succeeded
SimplifyOutcomes(fail) ==
    IF Bounds(Self) # None /\ fail = 0 THEN BOOLEAN ELSE {FALSE}

Next ==
    \/ CallBounds
    \/ CallSize
    \/ /\ call = NoCall
       /\ \E db \in BOOLEAN, dp \in BOOLEAN, op \in BOOLEAN, m \in Margins, sc \in ImageScales :
            \E fail \in 0..NumCalls(db) :
               CallDrawToCairo(db, dp, op, m, sc, fail)
    \/ /\ call = NoCall
       /\ \E db \in BOOLEAN, dp \in BOOLEAN, op \in BOOLEAN, m \in Margins :
            \E fail \in 0..NumSteps(db) :
               \E sf \in SimplifyOutcomes(fail) :
                  CallGenerateSvg(db, dp, op, m, fail, sf)

Spec == Init /\ [][Next]_vars

(* ---------------- properties ---------------- *)

SetMin(S) == CHOOSE m \in S : \A x \in S : m <= x
SetMax(S) == CHOOSE m \in S : \A x \in S : m >= x

\* the union of the strokes' boxes: min of the mins, max of the maxs
UnionOfBoxes(ss) ==
    LET I == 1..Len(ss)
    IN Aabb(<<SetMin({ss[i].bounds.mins[1] : i \in I}),
              SetMin({ss[i].bounds.mins[2] : i \in I})>>,
            <<SetMax({ss[i].bounds.maxs[1] : i \in I}),
              SetMax({ss[i].bounds.maxs[2] : i \in I})>>)

Permuted(ss, p) == [i \in 1..Len(ss) |-> ss[p[i]]]

\* the box the container's bounds() yields (override, else union)
EffectiveBox == IF bounds # None THEN bounds.val ELSE UnionOfBoxes(strokes)

HasBounds == bounds # None \/ strokes # <<>>

Inverted(b) == b.mins[1] > b.maxs[1] \/ b.mins[2] > b.maxs[2]

Issued(op) == {k \in 1..Len(log) : log[k].op = op}

Failed(k) == Fallible(log[k]) /\ ~log[k].ok

\* C1: with a bounds override present, bounds() returns the override whatever
\* the strokes are, and size() returns the extents of the override.
C1_OverrideWins ==
    bounds # None =>
        /\ call.op = "bounds" => ret = bounds
        /\ call.op = "size" =>
             ret = Some(<<bounds.val.maxs[1] - bounds.val.mins[1],
                          bounds.val.maxs[2] - bounds.val.mins[2]>>)

\* C1 witness: bounds() was called with an override that encloses none of
\* the container's two strokes.
C1_Witness ==
    /\ call.op = "bounds" /\ bounds # None /\ Len(strokes) = 2
    /\ \A i \in 1..2 : ~Contains(bounds.val, strokes[i].bounds)
    /\ ret = bounds

\* C2: without an override and with at least one stroke, bounds() is the
\* union of the strokes' boxes, the same for every permutation of the
\* strokes, and the invalid starting box is the identity of merged().
C2_UnionOrderFree ==
    (call.op = "bounds" /\ bounds = None /\ strokes # <<>>) =>
        /\ ret = Some(UnionOfBoxes(strokes))
        /\ \A p \in Permutations(1..Len(strokes)) :
             Bounds([Self EXCEPT !.strokes = Permuted(strokes, p)]) = ret
        /\ \A i \in 1..Len(strokes) :
             /\ Merged(NewInvalid, strokes[i].bounds) = strokes[i].bounds
             /\ Merged(strokes[i].bounds, NewInvalid) = strokes[i].bounds

\* C2 witness: the union of two strokes' boxes is neither of the two boxes.
C2_Witness ==
    /\ call.op = "bounds" /\ bounds = None /\ Len(strokes) = 2
    /\ ret.tag = "Some"
    /\ ret.val # strokes[1].bounds /\ ret.val # strokes[2].bounds

\* C3: with no strokes and no override, bounds() and size() are None,
\* draw_to_cairo returns Ok having issued no call on the context, and
\* generate_svg returns Ok(None).
C3_EmptyIsNoOp ==
    (strokes = <<>> /\ bounds = None) =>
        /\ call.op = "bounds" => ret = None
        /\ call.op = "size" => ret = None
        /\ call.op = "draw_to_cairo" => (ret = Ok(Unit) /\ log = <<>>)
        /\ call.op = "generate_svg" => (ret = Ok(None) /\ log = <<>>)

\* C3 witness: draw_to_cairo on the empty container with draw_background set
\* and a background configured.
C3_Witness ==
    /\ strokes = <<>> /\ bounds = None /\ background # None
    /\ call.op = "draw_to_cairo" /\ call.draw_background
    /\ ret = Ok(Unit)

\* C4: in draw_to_cairo with optimize_printing, a stroke whose box lies in
\* the box of an image of the container is drawn as it is, any other stroke
\* is drawn as a clone reduced to its darkest color, and the call leaves
\* every stroke of the container as it was.
C4_PrintOptimization ==
    [][(call'.op = "draw_to_cairo" /\ call'.optimize_printing) =>
         /\ strokes' = strokes
         /\ \A k \in 1..Len(log') :
              log'[k].op = "stroke_draw" =>
                LET s == strokes[log'[k].idx]
                    inside == \E j \in 1..Len(strokes) :
                                 /\ strokes[j].kind \in {"BitmapImage", "VectorImage"}
                                 /\ Contains(strokes[j].bounds, s.bounds)
                IN IF inside THEN log'[k].stroke = s
                   ELSE log'[k].stroke = [s EXCEPT !.color = "darkest"]]_vars

\* C4 witness: one call drew a stroke as it is and another stroke reduced,
\* and the container still holds only unreduced strokes.
C4_Witness ==
    /\ call.op = "draw_to_cairo" /\ call.optimize_printing /\ ret = Ok(Unit)
    /\ \E k \in Issued("stroke_draw") : log[k].stroke.color = "original"
    /\ \E k \in Issued("stroke_draw") : log[k].stroke.color = "darkest"
    /\ \A i \in 1..Len(strokes) : strokes[i].color = "original"

\* the loosened box of the call is a valid box
ValidLoosened == HasBounds => ~Inverted(Loosened(EffectiveBox, call.margin))

\* C5: when draw_to_cairo returns, on any path, as many restore calls were
\* issued as save calls took effect (stated for the calls whose loosened
\* box is valid).
C5_StackRestored ==
    (call.op = "draw_to_cairo" /\ ValidLoosened) =>
        Cardinality(Issued("restore")) =
            Cardinality({k \in Issued("save") : log[k].ok})

\* C6: a document returned by generate_svg has its bounds' mins at (0,0),
\* whatever the outcome of the normalization (stated for the calls whose
\* loosened box is valid).
C6_OriginAtZero ==
    (call.op = "generate_svg" /\ ValidLoosened /\ ret.tag = "Ok" /\ ret.val # None) =>
        ret.val.val.bounds.mins = <<0, 0>>

C8_CallOrder ==
    (call.op = "draw_to_cairo" /\ HasBounds /\ ret = Ok(Unit)) =>
        LET b == EffectiveBox
            m == call.margin
            bl == [mins |-> <<b.mins[1] - m, b.mins[2] - m>>,
                   maxs |-> <<b.maxs[1] + m, b.maxs[2] + m>>]
            g == IF call.draw_background /\ background # None THEN 1 ELSE 0
            n == Len(strokes)
        IN /\ Len(log) = 8 + g + n
           /\ log[1] = [op |-> "save", ok |-> TRUE]
           /\ log[2] = [op |-> "rectangle", x |-> bl.mins[1], y |-> bl.mins[2],
                        width |-> bl.maxs[1] - bl.mins[1],
                        height |-> bl.maxs[2] - bl.mins[2]]
           /\ log[3] = [op |-> "clip"]
           /\ g = 1 => log[4] = [op |-> "background_draw", background |-> background.val,
                                 bounds |-> bl, draw_pattern |-> call.draw_pattern,
                                 optimize_printing |-> call.optimize_printing,
                                 ok |-> TRUE]
           /\ g = 0 => Issued("background_draw") = {}
           /\ log[4 + g] = [op |-> "restore", ok |-> TRUE]
           /\ log[5 + g] = [op |-> "save", ok |-> TRUE]
           /\ log[6 + g] = [op |-> "rectangle", x |-> b.mins[1], y |-> b.mins[2],
                            width |-> b.maxs[1] - b.mins[1],
                            height |-> b.maxs[2] - b.mins[2]]
           /\ log[7 + g] = [op |-> "clip"]
           /\ \A i \in 1..n :
                /\ log[7 + g + i].op = "stroke_draw"
                /\ log[7 + g + i].idx = i
                /\ log[7 + g + i].image_scale = call.image_scale
                /\ log[7 + g + i].ok
           /\ log[8 + g + n] = [op |-> "restore", ok |-> TRUE]

\* C8 witness: a successful call with a nonzero margin that drew the
\* background and two strokes.
C8_Witness ==
    /\ call.op = "draw_to_cairo" /\ ret = Ok(Unit)
    /\ call.margin # 0 /\ Len(strokes) = 2
    /\ Issued("background_draw") # {}
    /\ Cardinality(Issued("stroke_draw")) = 2

\* C9: a failed backend call ends draw_to_cairo with Err: the failed call is
\* the last call issued (nothing is drawn after it, it is not retried), and
\* Ok is never returned after a failure.
C9_FailureIsTerminal ==
    call.op = "draw_to_cairo" =>
        /\ \A k \in 1..Len(log) : Failed(k) => (k = Len(log) /\ ret = Err)
        /\ call.fail # 0 => (ret = Err /\ \E k \in 1..Len(log) : Failed(k))
        /\ \A k \in Issued("background_draw") :
             Failed(k) => Issued("stroke_draw") = {}
        /\ \A k \in Issued("stroke_draw") :
             Failed(k) => \A j \in Issued("stroke_draw") : log[j].idx <= log[k].idx
        /\ \A j, k \in Issued("stroke_draw") : j # k => log[j].idx # log[k].idx

\* C9 witness: the draw of the first of two strokes failed.
C9_Witness ==
    /\ call.op = "draw_to_cairo" /\ Len(strokes) = 2 /\ ret = Err
    /\ log # <<>>
    /\ log[Len(log)].op = "stroke_draw"
    /\ log[Len(log)].idx = 1 /\ ~log[Len(log)].ok

\* C10: draw_to_cairo with a negative margin that inverts the loosened box
\* returns Err and neither clips nor draws with the inverted box.
C10_InvertedIsError ==
    (call.op = "draw_to_cairo" /\ HasBounds
       /\ Inverted(Loosened(EffectiveBox, call.margin))) =>
        /\ ret = Err
        /\ Issued("rectangle") = {} /\ Issued("clip") = {}
        /\ Issued("background_draw") = {} /\ Issued("stroke_draw") = {}

====
